---- MODULE Spec2Model ----
(***************************************************************************)
(* A model of .github/scripts/claude_review.py: the three loaders, the     *)
(* extraction of the user instruction, the construction of the prompts,    *)
(* the single model call and the writing of /tmp/review_result.md.         *)
(*                                                                         *)
(* Strings are sequences.  Data (file contents, paths, comment bodies, the *)
(* short literals the loaders put around them) is one element per          *)
(* character, so that lower(), strip(), split(), startswith(), endswith()  *)
(* and slicing act on characters as they do in Python.  The long fixed     *)
(* texts of the prompt and document templates are one element each.        *)
(* The parser accepts ASCII only, so the emoji and the Chinese text of     *)
(* the templates are written as ASCII placeholders.                        *)
(***************************************************************************)
EXTENDS Naturals, Sequences, FiniteSets, TLC

VARIABLES environ, fs, pc, user_instruction, knowledge, pr_diff, changed_files,
          system_prompt, user_message, client, requests, outcome, caught,
          out_file, writes, exit_status

vars == <<environ, fs, pc, user_instruction, knowledge, pr_diff, changed_files,
          system_prompt, user_message, client, requests, outcome, caught,
          out_file, writes, exit_status>>

(***************************************************************************)
(* Bounds of the model.                                                    *)
(***************************************************************************)
MaxFrags == 3
MaxLines == 3
MaxPatterns == 2
Slack == 1
MaxBlocks == 2

(***************************************************************************)
(* Python's string operations, on sequences of characters.                 *)
(***************************************************************************)
Min(a, b) == IF a < b THEN a ELSE b

UpperChars == <<"A", "B", "C", "D", "E", "F", "G", "H", "I", "J", "K", "L", "M",
                "N", "O", "P", "Q", "R", "S", "T", "U", "V", "W", "X", "Y", "Z">>

LowerChars == <<"a", "b", "c", "d", "e", "f", "g", "h", "i", "j", "k", "l", "m",
                "n", "o", "p", "q", "r", "s", "t", "u", "v", "w", "x", "y", "z">>

Whitespace == {" ", "\n", "\t", "\r"}

\* str.lower() on one character
LowerChar(c) ==
    IF \E i \in 1..26 : UpperChars[i] = c
    THEN LowerChars[CHOOSE i \in 1..26 : UpperChars[i] = c]
    ELSE c

\* str.lower()
Lower(s) == [i \in 1..Len(s) |-> LowerChar(s[i])]

\* s[:n]
Slice(s, n) == SubSeq(s, 1, Min(n, Len(s)))

\* s[i:] for a 1-based i
From(s, i) == SubSeq(s, i, Len(s))

\* the 1-based index of the first occurrence of sub in s, 0 when there is none
Find(s, sub) ==
    LET hits == {i \in 1..(Len(s) + 1) :
                    /\ i + Len(sub) - 1 <= Len(s)
                    /\ SubSeq(s, i, i + Len(sub) - 1) = sub}
    IN  IF hits = {} THEN 0 ELSE CHOOSE i \in hits : \A j \in hits : i <= j

\* sub in s
Contains(s, sub) == Find(s, sub) /= 0

\* s.split(sep, 1)
Split1(s, sep) ==
    LET i == Find(s, sep)
    IN  IF i = 0 THEN <<s>>
        ELSE <<SubSeq(s, 1, i - 1), From(s, i + Len(sep))>>

\* s.strip()
Strip(s) ==
    LET keep == {i \in 1..Len(s) : s[i] \notin Whitespace}
    IN  IF keep = {} THEN <<>>
        ELSE SubSeq(s, CHOOSE i \in keep : \A j \in keep : i <= j,
                       CHOOSE i \in keep : \A j \in keep : i >= j)

\* s.startswith(p)
StartsWith(s, p) == Len(p) <= Len(s) /\ SubSeq(s, 1, Len(p)) = p

\* s.endswith(p)
EndsWith(s, p) == Len(p) <= Len(s) /\ SubSeq(s, Len(s) - Len(p) + 1, Len(s)) = p

RECURSIVE Join(_, _)
\* sep.join(parts)
Join(sep, parts) ==
    IF parts = <<>> THEN <<>>
    ELSE IF Len(parts) = 1 THEN parts[1]
    ELSE parts[1] \o sep \o Join(sep, Tail(parts))

RECURSIVE Flatten(_)
\* the concatenation of a sequence of strings
Flatten(parts) == IF parts = <<>> THEN <<>> ELSE parts[1] \o Flatten(Tail(parts))

RECURSIVE SeqsUpTo(_, _)
\* the sequences of at most n elements of S
SeqsUpTo(S, n) ==
    IF n = 0 THEN {<<>>}
    ELSE LET shorter == SeqsUpTo(S, n - 1)
         IN  shorter \cup {Append(s, x) : s \in shorter, x \in S}

(***************************************************************************)
(* os.environ                                                              *)
(***************************************************************************)
\* os.environ.get(name, default)
EnvGet(name, default) == IF name \in DOMAIN environ THEN environ[name] ELSE default

\* the test of line 92 written as `api_key == ""`: an unset variable passes it
KeyMissingEmptyOnly ==
    "ANTHROPIC_API_KEY" \in DOMAIN environ /\ environ["ANTHROPIC_API_KEY"] = <<>>

\* `not api_key` for api_key = os.environ.get("ANTHROPIC_API_KEY"): None and ""
\* are both falsy
KeyMissing ==
    \/ "ANTHROPIC_API_KEY" \notin DOMAIN environ
    \/ environ["ANTHROPIC_API_KEY"] = <<>>

Unknown == <<"u", "n", "k", "n", "o", "w", "n">>

\* pr_number = os.environ.get("PR_NUMBER", "unknown")
PrNumber == EnvGet("PR_NUMBER", Unknown)

\* comment_body = os.environ.get("COMMENT_BODY", "")
CommentBody == EnvGet("COMMENT_BODY", <<>>)

(***************************************************************************)
(* The user instruction                                                    *)
(***************************************************************************)
Keyword == <<"@", "c", "l", "a", "u", "d", "e">>

\* lines 102-106
ExtractInstruction(body) ==
    IF Contains(Lower(body), Keyword)
    THEN LET parts == Split1(Lower(body), Keyword)
         IN  IF Len(parts) > 1 THEN Strip(parts[2]) ELSE <<>>
    ELSE <<>>

(***************************************************************************)
(* The filesystem.  A path is "absent", "ok" (it exists and reads), or     *)
(* "unreadable" (os.path.exists is true and open() or read() raises: no    *)
(* permission, a directory, undecodable bytes under a strict decoder).     *)
(***************************************************************************)
FileStates == {"absent", "ok", "unreadable"}

\* a loader's outcome: the string it returns, or an exception leaving it
Returned(s) == [raised |-> FALSE, value |-> s]
Raised == [raised |-> TRUE, value |-> <<>>]

(***************************************************************************)
(* load_ai_dev_kit_knowledge                                               *)
(***************************************************************************)
PriorityFiles ==
    << <<"C", "L", "A", "U", "D", "E", ".", "m", "d">>,
       <<"d", "o", "c", "s", "/", "A", "I", "_", "Q", "U", "I", "C", "K", "_",
         "R", "U", "L", "E", "S", ".", "m", "d">>,
       <<"d", "o", "c", "s", "/", "A", "I", "_", "D", "E", "V", "E", "L", "O",
         "P", "E", "R", "_", "G", "U", "I", "D", "E", ".", "m", "d">> >>

\* what f.read() gives for the i-th priority file
PriorityText == << <<"r", "1">>, <<>>, <<"g">> >>

\* the file names docs/patterns/*.md can match, and what f.read() gives for each
PatternNames == { <<"a", ".", "m", "d">>, <<"b", ".", "m", "d">>, <<"c", ".", "m", "d">> }

PatternText(name) == <<"p", name[1]>>

KnowledgeSep == <<"\n", "-", "-", "-", "\n">>

\* line 32: f"## {rel_path}\n\n{content}\n"
PriorityBlock(rel_path, content) ==
    <<"#", "#", " ">> \o rel_path \o <<"\n", "\n">> \o content \o <<"\n">>

\* line 44: f"## Pattern: {rel_name}\n\n{content}\n"
PatternBlock(rel_name, content) ==
    <<"#", "#", " ", "P", "a", "t", "t", "e", "r", "n", ":", " ">> \o rel_name
        \o <<"\n", "\n">> \o content \o <<"\n">>

RECURSIVE PriorityParts(_, _)
\* lines 26-34, from the i-th priority file on: a file that does not exist is
\* skipped, one whose read raises is skipped by the except clause
PriorityParts(f, i) ==
    IF i > Len(PriorityFiles) THEN <<>>
    ELSE (IF f.prio[i] = "ok"
          THEN <<PriorityBlock(PriorityFiles[i], PriorityText[i])>>
          ELSE <<>>) \o PriorityParts(f, i + 1)

RECURSIVE PatternParts(_)
\* lines 39-46, over what glob.glob returned, in its order
PatternParts(matches) ==
    IF matches = <<>> THEN <<>>
    ELSE (IF matches[1].state = "ok"
          THEN <<PatternBlock(matches[1].name, PatternText(matches[1].name))>>
          ELSE <<>>) \o PatternParts(Tail(matches))

\* knowledge_parts with the pattern loop placed before the priority loop
KnowledgePartsPatternsFirst(f) ==
    (IF f.patterns_dir THEN PatternParts(f.glob) ELSE <<>>) \o PriorityParts(f, 1)

\* knowledge_parts at line 48
KnowledgeParts(f) ==
    PriorityParts(f, 1) \o (IF f.patterns_dir THEN PatternParts(f.glob) ELSE <<>>)

\* lines 14-48
LoadAiDevKitKnowledge(f) ==
    LET knowledge_parts == KnowledgeParts(f)
    IN  Returned(IF knowledge_parts /= <<>>
                 THEN Join(KnowledgeSep, knowledge_parts) ELSE <<>>)

(***************************************************************************)
(* load_pr_diff                                                            *)
(***************************************************************************)
\* lines 51-57: the open() of line 55 is in no try block
LoadPrDiff(f) ==
    IF f.diff = "absent" THEN Returned(<<>>)
    ELSE IF f.diff = "ok" THEN Returned(f.diff_text)
    ELSE Raised

(***************************************************************************)
(* load_changed_files_content                                              *)
(***************************************************************************)
GamesPrefix == <<"g", "a", "m", "e", "s", "/">>
ExtLua == <<".", "l", "u", "a">>
ExtJson == <<".", "j", "s", "o", "n">>
ExtMd == <<".", "m", "d">>

\* the paths the list file may name, and what f.read() gives for each
PathALua == <<"g", "a", "m", "e", "s", "/", "a", ".", "l", "u", "a">>
PathGJson == <<"g", "a", "m", "e", "s", "/", "g", ".", "j", "s", "o", "n">>
PathRMd == <<"g", "a", "m", "e", "s", "/", "r", ".", "m", "d">>
PathSrcLua == <<"s", "r", "c", "/", "a", ".", "l", "u", "a">>
PathGamesTxt == <<"g", "a", "m", "e", "s", "/", "a", ".", "t", "x", "t">>
PathDocsTxt == <<"d", "o", "c", "s", "/", "n", ".", "t", "x", "t">>

FileText(path) == IF path = PathRMd THEN <<>> ELSE <<"x", path[Len(path)]>>

\* the state of a path: one the filesystem does not hold is absent
FileState(f, path) == IF path \in DOMAIN f.files THEN f.files[path] ELSE "absent"

\* the filter of lines 73-77 with `or` in place of `and`
QualifiesEither(filepath) ==
    StartsWith(filepath, GamesPrefix) \/
        (EndsWith(filepath, ExtLua) \/ EndsWith(filepath, ExtJson)
            \/ EndsWith(filepath, ExtMd))

\* the filter of lines 73-77
Qualifies(filepath) ==
    StartsWith(filepath, GamesPrefix) /\
        (EndsWith(filepath, ExtLua) \/ EndsWith(filepath, ExtJson)
            \/ EndsWith(filepath, ExtMd))

\* line 82: f"### {filepath}\n~~~\n{content}\n~~~\n", with "~" for the backquote,
\* which the parser does not accept in a string
FileBlock(filepath, content) ==
    <<"#", "#", "#", " ">> \o filepath \o <<"\n", "~", "~", "~", "\n">> \o content
        \o <<"\n", "~", "~", "~", "\n">>

RECURSIVE StrippedLines(_)
\* line 69: [line.strip() for line in f if line.strip()]
StrippedLines(lines) ==
    IF lines = <<>> THEN <<>>
    ELSE (IF Strip(lines[1]) /= <<>> THEN <<Strip(lines[1])>> ELSE <<>>)
             \o StrippedLines(Tail(lines))

RECURSIVE ChangedContents(_, _)
\* lines 71-84: the blocks appended to contents
ChangedContents(f, files) ==
    IF files = <<>> THEN <<>>
    ELSE (IF Qualifies(files[1]) /\ FileState(f, files[1]) = "ok"
          THEN <<FileBlock(files[1], FileText(files[1]))>>
          ELSE <<>>) \o ChangedContents(f, Tail(files))

\* lines 60-86: the open() of line 68 is in no try block
LoadChangedFilesContent(f) ==
    IF f.list = "absent" THEN Returned(<<>>)
    ELSE IF f.list = "unreadable" THEN Raised
    ELSE Returned(Join(<<"\n">>, ChangedContents(f, StrippedLines(f.lines))))

(***************************************************************************)
(* The prompts (lines 114-155)                                             *)
(***************************************************************************)
KnowledgeLimit == 50000
DiffLimit == 30000
ChangedLimit == 20000

SysHead == "[system prompt, lines 114-119: reviewer role; '## expertise'; the documents follow]"
SysTail == "[system prompt, lines 121-138: '## review criteria' 1-6; '## output format']"
KnowledgeFallback == "(knowledge base failed to load, review by general Lua best practice)"
UserHead == "Please review the code changes of Pull Request #"
InstructionHead == "[lines 141-143: ':'; '## special requests of the user']"
InstructionFallback == "(no special request, please review everything)"
DiffHead == "[lines 145-147: '## PR Diff'; opening diff fence]"
DiffFallback == "(the diff could not be fetched)"
ChangedHead == "[lines 149-151: closing fence; '## full content of the changed files']"
ChangedFallback == "(no game file changed)"
UserTail == "[lines 153-155: 'please start the review']"

\* line 120: {knowledge[:50000] if knowledge else "..."}
KnowledgePart(k) == IF k /= <<>> THEN Slice(k, KnowledgeLimit) ELSE <<KnowledgeFallback>>

\* line 144: {user_instruction if user_instruction else "..."}
InstructionPart(i) == IF i /= <<>> THEN i ELSE <<InstructionFallback>>

\* line 148: {pr_diff[:30000] if pr_diff else "..."}
DiffPart(d) == IF d /= <<>> THEN Slice(d, DiffLimit) ELSE <<DiffFallback>>

\* the slice of line 152 taken from the end of the content
ChangedPartLastChars(c) ==
    IF c /= <<>> THEN SubSeq(c, Len(c) - Min(ChangedLimit, Len(c)) + 1, Len(c))
    ELSE <<ChangedFallback>>

\* line 152: {changed_files[:20000] if changed_files else "..."}
ChangedPart(c) == IF c /= <<>> THEN Slice(c, ChangedLimit) ELSE <<ChangedFallback>>

\* lines 114-138
SystemPrompt(k) == <<SysHead>> \o KnowledgePart(k) \o <<SysTail>>

\* lines 141-155
UserMessage(pr, i, d, c) ==
    <<UserHead>> \o pr \o <<InstructionHead>> \o InstructionPart(i)
        \o <<DiffHead>> \o DiffPart(d) \o <<ChangedHead>> \o ChangedPart(c)
        \o <<UserTail>>

(***************************************************************************)
(* The documents written to /tmp/review_result.md                          *)
(***************************************************************************)
ConfigErrorDoc ==
    <<"X **Error**: ANTHROPIC_API_KEY secret is not configured. Please add your Anthropic API key in repository Settings - Secrets - Actions.">>

ReviewHeader == "## Claude Code Review"
ReviewIntro == "[lines 173-175: review generated by Claude AI; 'PR #']"
ReviewTrigger == "[lines 175-178: triggered by the @claude command; rule]"
ReviewFooter == "[lines 180-183: rule; powered by Claude, knowledge from the UrhoX AI Dev Kit]"
ErrorHeader == "## X Claude Code Review Failed"
ErrorIntro == "[lines 192-195: sorry, the review met an error; opening fence]"
ErrorTail == "[lines 197-200: closing fence; please check the ANTHROPIC_API_KEY configuration]"

\* lines 172-183
ReviewDoc(pr, review_content) ==
    <<ReviewHeader, ReviewIntro>> \o pr \o <<ReviewTrigger>> \o review_content
        \o <<ReviewFooter>>

\* lines 191-200
ErrorDoc(msg) == <<ErrorHeader, ErrorIntro>> \o msg \o <<ErrorTail>>

NoFile == [exists |-> FALSE, content |-> <<>>]
FileWith(doc) == [exists |-> TRUE, content |-> doc]

(***************************************************************************)
(* The model call (lines 158-169)                                          *)
(***************************************************************************)
\* the text of a content block of a response
BlockTexts == { <<"L", "G", "T", "M">>, <<"f", "i", "x", " ", "i", "t">> }

\* response.content: a list of content blocks, possibly empty
Responses == SeqsUpTo(BlockTexts, MaxBlocks)

\* str(e) of what anthropic.Anthropic(...) or client.messages.create(...) raises
ApiErrors ==
    { <<"Connection error.">>,
      <<"Error code: 401 - authentication_error: invalid x-api-key">>,
      <<"Error code: 529 - overloaded_error: Overloaded">> }

\* str(e) of the IndexError of response.content[0] on an empty list
IndexErrorText == <<"list index out of range">>

NoOutcome == [kind |-> "none", content |-> <<>>]
ReturnedResponse(blocks) == [kind |-> "returned", content |-> blocks]
RaisedError == [kind |-> "raised", content |-> <<>>]

(***************************************************************************)
(* run_claude_review, step by step.  pc is the position in the function:   *)
(* "done" after a return or sys.exit, "crashed" when an exception left     *)
(* run_claude_review uncaught (the interpreter prints the traceback and    *)
(* the process ends with status 1).                                        *)
(***************************************************************************)
Write(doc) == out_file' = FileWith(doc) /\ writes' = writes + 1

\* lines 91-96
CheckCredential ==
    /\ pc = "start"
    /\ IF KeyMissing
       THEN /\ Write(ConfigErrorDoc)
            /\ pc' = "done"
            /\ exit_status' = "0"
       ELSE /\ pc' = "extract"
            /\ UNCHANGED <<out_file, writes, exit_status>>
    /\ UNCHANGED <<environ, fs, user_instruction, knowledge, pr_diff, changed_files,
                   system_prompt, user_message, client, requests, outcome, caught>>

\* lines 98-106
ExtractUserInstruction ==
    /\ pc = "extract"
    /\ user_instruction' = ExtractInstruction(CommentBody)
    /\ pc' = "load_knowledge"
    /\ UNCHANGED <<environ, fs, knowledge, pr_diff, changed_files, system_prompt,
                   user_message, client, requests, outcome, caught, out_file,
                   writes, exit_status>>

\* line 109
LoadKnowledge ==
    /\ pc = "load_knowledge"
    /\ LET r == LoadAiDevKitKnowledge(fs)
       IN  IF r.raised
           THEN pc' = "crashed" /\ exit_status' = "1" /\ UNCHANGED knowledge
           ELSE pc' = "load_diff" /\ knowledge' = r.value /\ UNCHANGED exit_status
    /\ UNCHANGED <<environ, fs, user_instruction, pr_diff, changed_files,
                   system_prompt, user_message, client, requests, outcome, caught,
                   out_file, writes>>

\* line 110
LoadDiff ==
    /\ pc = "load_diff"
    /\ LET r == LoadPrDiff(fs)
       IN  IF r.raised
           THEN pc' = "crashed" /\ exit_status' = "1" /\ UNCHANGED pr_diff
           ELSE pc' = "load_changed" /\ pr_diff' = r.value /\ UNCHANGED exit_status
    /\ UNCHANGED <<environ, fs, user_instruction, knowledge, changed_files,
                   system_prompt, user_message, client, requests, outcome, caught,
                   out_file, writes>>

\* line 111
LoadChanged ==
    /\ pc = "load_changed"
    /\ LET r == LoadChangedFilesContent(fs)
       IN  IF r.raised
           THEN pc' = "crashed" /\ exit_status' = "1" /\ UNCHANGED changed_files
           ELSE pc' = "build" /\ changed_files' = r.value /\ UNCHANGED exit_status
    /\ UNCHANGED <<environ, fs, user_instruction, knowledge, pr_diff,
                   system_prompt, user_message, client, requests, outcome, caught,
                   out_file, writes>>

\* lines 114-155
BuildPrompts ==
    /\ pc = "build"
    /\ system_prompt' = SystemPrompt(knowledge)
    /\ user_message' = UserMessage(PrNumber, user_instruction, pr_diff, changed_files)
    /\ pc' = "call"
    /\ UNCHANGED <<environ, fs, user_instruction, knowledge, pr_diff, changed_files,
                   client, requests, outcome, caught, out_file, writes, exit_status>>

\* lines 158-167: the client is built and the one request is sent; the call
\* returns a response or raises
CallModel ==
    /\ pc = "call"
    /\ client' = TRUE
    /\ requests' = requests + 1
    /\ \/ \E blocks \in Responses :
             /\ outcome' = ReturnedResponse(blocks)
             /\ pc' = "respond"
             /\ UNCHANGED caught
       \/ \E e \in ApiErrors :
             /\ outcome' = RaisedError
             /\ caught' = e
             /\ pc' = "except"
    /\ UNCHANGED <<environ, fs, user_instruction, knowledge, pr_diff, changed_files,
                   system_prompt, user_message, out_file, writes, exit_status>>

\* lines 169-188: response.content[0] raises IndexError on an empty list, inside
\* the try block
WriteReview ==
    /\ pc = "respond"
    /\ IF outcome.content = <<>>
       THEN /\ caught' = IndexErrorText
            /\ pc' = "except"
            /\ UNCHANGED <<out_file, writes, exit_status>>
       ELSE /\ Write(ReviewDoc(PrNumber, outcome.content[1]))
            /\ pc' = "done"
            /\ exit_status' = "0"
            /\ UNCHANGED caught
    /\ UNCHANGED <<environ, fs, user_instruction, knowledge, pr_diff, changed_files,
                   system_prompt, user_message, client, requests, outcome>>

\* the except clause sending the request again, once
HandleErrorRetry ==
    /\ pc = "except"
    /\ IF requests < 2
       THEN /\ pc' = "call"
            /\ UNCHANGED <<out_file, writes, exit_status>>
       ELSE /\ Write(ErrorDoc(caught))
            /\ exit_status' = "1"
            /\ pc' = "done"
    /\ UNCHANGED <<environ, fs, user_instruction, knowledge, pr_diff, changed_files,
                   system_prompt, user_message, client, requests, outcome, caught>>

\* the except clause without its sys.exit(1)
HandleErrorNoExit ==
    /\ pc = "except"
    /\ Write(ErrorDoc(caught))
    /\ exit_status' = "0"
    /\ pc' = "done"
    /\ UNCHANGED <<environ, fs, user_instruction, knowledge, pr_diff, changed_files,
                   system_prompt, user_message, client, requests, outcome, caught>>

\* lines 190-204
HandleError ==
    /\ pc = "except"
    /\ Write(ErrorDoc(caught))
    /\ exit_status' = "1"
    /\ pc' = "done"
    /\ UNCHANGED <<environ, fs, user_instruction, knowledge, pr_diff, changed_files,
                   system_prompt, user_message, client, requests, outcome, caught>>

(***************************************************************************)
(* The inputs                                                              *)
(***************************************************************************)
ApiKey == <<"s", "k", "-", "1">>

\* os.environ with each of the three variables set or not
Environ(key, pr, body) ==
    [n \in (IF key.set THEN {"ANTHROPIC_API_KEY"} ELSE {})
           \cup (IF pr.set THEN {"PR_NUMBER"} ELSE {})
           \cup (IF body.set THEN {"COMMENT_BODY"} ELSE {}) |->
        IF n = "ANTHROPIC_API_KEY" THEN key.value
        ELSE IF n = "PR_NUMBER" THEN pr.value ELSE body.value]

Unset == [set |-> FALSE, value |-> <<>>]
SetTo(v) == [set |-> TRUE, value |-> v]

\* the paths of the model's filesystem that a list file can name
ListedPaths == {PathALua, PathGJson, PathRMd, PathSrcLua, PathGamesTxt, PathDocsTxt}

\* a filesystem holding none of the inputs
EmptyFs ==
    [prio |-> [i \in 1..3 |-> "absent"], patterns_dir |-> FALSE, glob |-> <<>>,
     diff |-> "absent", diff_text |-> <<>>,
     list |-> "absent", lines |-> <<>>, files |-> [p \in ListedPaths |-> "absent"]]

\* what glob.glob can return: distinct names, in any order, each file readable
\* or not when it is opened
RECURSIVE Matches(_)
Matches(n) ==
    IF n = 0 THEN {<<>>}
    ELSE LET shorter == Matches(n - 1)
         IN  shorter \cup
             {Append(m, [name |-> nm, state |-> st]) :
                 m \in {x \in shorter : Len(x) = n - 1},
                 nm \in PatternNames, st \in {"ok", "unreadable"}}

DistinctNames(m) == \A i, j \in 1..Len(m) : m[i].name = m[j].name => i = j

KnowledgeSources ==
    {[prio |-> p, patterns_dir |-> d, glob |-> g] :
        p \in [1..3 -> FileStates], d \in BOOLEAN,
        g \in {m \in Matches(MaxPatterns) : DistinctNames(m)}}

\* a filesystem with these knowledge sources, this diff and these changed files
MkFs(k, d, c) ==
    [prio |-> k.prio, patterns_dir |-> k.patterns_dir,
     glob |-> IF k.patterns_dir THEN k.glob ELSE <<>>,
     diff |-> d.state, diff_text |-> IF d.state = "ok" THEN d.text ELSE <<>>,
     list |-> c.list, lines |-> IF c.list = "ok" THEN c.lines ELSE <<>>,
     files |-> c.files]

NoKnowledge == [prio |-> [i \in 1..3 |-> "absent"], patterns_dir |-> FALSE, glob |-> <<>>]
NoDiff == [state |-> "absent", text |-> <<>>]
NoChanged == [list |-> "absent", lines |-> <<>>, files |-> [p \in ListedPaths |-> "absent"]]

\* the lines a list file can hold, as iterating the file yields them
RawLines ==
    { PathALua \o <<"\n">>,
      <<" ">> \o PathGJson \o <<" ", "\n">>,
      PathRMd \o <<"\n">>,
      PathSrcLua \o <<"\n">>,
      PathGamesTxt \o <<"\n">>,
      PathDocsTxt,
      <<" ", "\n">> }

\* every listed path outside games/ or with another extension exists and reads;
\* the three others are each in one of several states
ChangedFileStates ==
    {[p \in ListedPaths |->
        IF p = PathALua THEN a ELSE IF p = PathGJson THEN g
        ELSE IF p = PathRMd THEN r ELSE "ok"] :
        a \in FileStates, g \in {"ok", "absent"}, r \in {"ok", "unreadable"}}

ChangedSources ==
    {[list |-> l, lines |-> ls, files |-> f] :
        l \in FileStates, ls \in SeqsUpTo(RawLines, MaxLines), f \in ChangedFileStates}

\* the pieces comment bodies are made of
Fragments ==
    { Keyword,
      <<"@", "C", "l", "a", "u", "d", "e">>,
      <<"@", "C", "L", "A", "U", "D", "E">>,
      <<"@", "c", "l">>,
      <<" ">>,
      <<"F", "i", "x">>,
      <<"o", "k", "\n">> }

Bodies == {Flatten(fr) : fr \in SeqsUpTo(Fragments, MaxFrags)}

\* a text of n characters, no two neighbours alike
TextOfLength(n) == [i \in 1..n |-> <<"a", "b", "c">>[(i % 3) + 1]]

Lengths(limit) == {0, 1, limit, limit + Slack}

\* the state at a position of run_claude_review, nothing called or written yet
At(position, e, f, ui, k, d, c) ==
    /\ environ = e
    /\ fs = f
    /\ pc = position
    /\ user_instruction = ui
    /\ knowledge = k
    /\ pr_diff = d
    /\ changed_files = c
    /\ system_prompt = <<>>
    /\ user_message = <<>>
    /\ client = FALSE
    /\ requests = 0
    /\ outcome = NoOutcome
    /\ caught = <<>>
    /\ out_file = NoFile
    /\ writes = 0
    /\ exit_status = "running"

(***************************************************************************)
(* The whole run, over a small set of environments and filesystems         *)
(***************************************************************************)
RunEnvirons ==
    {Environ(k, p, b) :
        k \in {Unset, SetTo(<<>>), SetTo(ApiKey)},
        p \in {Unset, SetTo(<<"7">>)},
        b \in {Unset, SetTo(<<"@", "C", "l", "a", "u", "d", "e", " ", "F", "i", "x">>),
               SetTo(<<"h", "i">>)}}

RunFilesystems ==
    {MkFs(k, d, c) :
        k \in {NoKnowledge,
               [prio |-> <<"ok", "unreadable", "absent">>, patterns_dir |-> TRUE,
                glob |-> <<[name |-> <<"b", ".", "m", "d">>, state |-> "ok"]>>]},
        d \in {NoDiff, [state |-> "ok", text |-> <<>>],
               [state |-> "ok", text |-> <<"+", "x">>],
               [state |-> "unreadable", text |-> <<>>]},
        c \in {NoChanged,
               [list |-> "unreadable", lines |-> <<>>,
                files |-> [p \in ListedPaths |-> "ok"]],
               [list |-> "ok",
                lines |-> <<PathSrcLua \o <<"\n">>, PathALua \o <<"\n">>>>,
                files |-> [p \in ListedPaths |-> "ok"]],
               [list |-> "ok", lines |-> <<PathRMd \o <<"\n">>>>,
                files |-> [p \in ListedPaths |-> "unreadable"]]}}

Init ==
    \E e \in RunEnvirons, f \in RunFilesystems :
        At("start", e, f, <<>>, <<>>, <<>>, <<>>)

Next ==
    \/ CheckCredential
    \/ ExtractUserInstruction
    \/ LoadKnowledge
    \/ LoadDiff
    \/ LoadChanged
    \/ BuildPrompts
    \/ CallModel
    \/ WriteReview
    \/ HandleError

Spec == Init /\ [][Next]_vars

(***************************************************************************)
(* The steps taken alone, each over a wider set of inputs                  *)
(***************************************************************************)
KeyOnly == Environ(SetTo(ApiKey), Unset, Unset)

InitInstruction ==
    \E b \in {Unset} \cup {SetTo(x) : x \in Bodies} :
        At("extract", Environ(SetTo(ApiKey), Unset, b), EmptyFs, <<>>, <<>>, <<>>, <<>>)

NextInstruction == ExtractUserInstruction

SpecInstruction == InitInstruction /\ [][NextInstruction]_vars

InitKnowledge ==
    \E k \in KnowledgeSources :
        /\ k.patterns_dir \/ k.glob = <<>>
        /\ At("load_knowledge", KeyOnly, MkFs(k, NoDiff, NoChanged),
              <<>>, <<>>, <<>>, <<>>)

NextKnowledge == LoadKnowledge

SpecKnowledge == InitKnowledge /\ [][NextKnowledge]_vars

InitChanged ==
    \E c \in ChangedSources :
        /\ c.list = "ok" \/ c.lines = <<>>
        /\ At("load_changed", KeyOnly, MkFs(NoKnowledge, NoDiff, c),
              <<>>, <<>>, <<>>, <<>>)

NextChanged == LoadChanged

SpecChanged == InitChanged /\ [][NextChanged]_vars

\* the loaders' results drawn directly, at lengths around each limit
InitPrompt ==
    \E lk \in Lengths(KnowledgeLimit), ld \in Lengths(DiffLimit),
       lc \in Lengths(ChangedLimit) :
        At("build", KeyOnly, EmptyFs, <<>>,
           TextOfLength(lk), TextOfLength(ld), TextOfLength(lc))

NextPrompt == BuildPrompts

SpecPrompt == InitPrompt /\ [][NextPrompt]_vars

(***************************************************************************)
(* The claims                                                              *)
(***************************************************************************)
Ended == pc \in {"done", "crashed"}
KeyUnset == "ANTHROPIC_API_KEY" \notin DOMAIN environ
KeyPresent == ~KeyUnset /\ environ["ANTHROPIC_API_KEY"] /= <<>>

\* C1: with the credential present, whatever sources are missing or unreadable,
\* no exception leaves run_claude_review and every run that ends has reached
\* the model call.
C1_LoadersNeverAbort ==
    KeyPresent => /\ pc /= "crashed"
                  /\ (Ended => client /\ requests >= 1)

\* C2: every run that ends has written /tmp/review_result.md exactly once, and
\* what the file holds is the review or an error document.
C2_OutputWrittenExactlyOnce ==
    /\ writes <= 1
    /\ Ended =>
         /\ writes = 1
         /\ out_file.exists
         /\ out_file.content[1] \in {ReviewHeader, ErrorHeader, ConfigErrorDoc[1]}

\* C3: when ANTHROPIC_API_KEY is not set, the run goes from its start to its end
\* in one step: the file holds the configuration-error document, the exit status
\* is 0, and the client is never built and no request is ever sent.
C3_MissingCredential ==
    KeyUnset =>
        /\ ~client
        /\ requests = 0
        /\ pc \in {"start", "done"}
        /\ pc = "done" =>
             /\ out_file = [exists |-> TRUE, content |-> ConfigErrorDoc]
             /\ writes = 1
             /\ exit_status = "0"

C3_Witness == KeyUnset /\ pc = "done" /\ out_file.exists

\* C4: when the model call raised, the exception is caught (the run never
\* crashes), and the run ends with the error template around the exception's
\* text in the file, and exit status 1.
C4_ModelCallFailure ==
    outcome.kind = "raised" =>
        /\ pc \in {"except", "done"}
        /\ caught \in ApiErrors
        /\ pc = "done" =>
             /\ out_file.exists
             /\ out_file.content = <<ErrorHeader, ErrorIntro>> \o caught \o <<ErrorTail>>
             /\ exit_status = "1"

C4_Witness == outcome.kind = "raised" /\ pc = "done" /\ exit_status = "1"

\* C5: with the credential present, a run in which the model call returned ends
\* with the success document (first the header, and the pull-request number in
\* it) and exit status 0; exit status 1 only when the model call itself raised.
C5_SuccessDocument ==
    /\ (Ended /\ KeyPresent /\ outcome.kind = "returned") =>
          /\ out_file.exists
          /\ out_file.content[1] = ReviewHeader
          /\ Contains(out_file.content, EnvGet("PR_NUMBER", Unknown))
          /\ exit_status = "0"
    /\ exit_status = "1" => outcome.kind = "raised"

\* the text of the comment body itself after the first occurrence of the keyword
\* in any letter case, trimmed; empty without the keyword
InstructionInOriginalText(body) ==
    LET at == {i \in 1..Len(body) :
                  /\ i + Len(Keyword) - 1 <= Len(body)
                  /\ \A j \in 1..Len(Keyword) : LowerChar(body[i + j - 1]) = Keyword[j]}
    IN  IF at = {} THEN <<>>
        ELSE Strip(From(body, (CHOOSE i \in at : \A j \in at : i <= j) + Len(Keyword)))

\* C6: the user instruction is the text of the original comment body after the
\* first occurrence of '@claude' in any letter case, trimmed and otherwise
\* unchanged; it is empty when the body has no keyword.
C6_InstructionIsOriginalText ==
    (KeyPresent /\ pc \notin {"start", "extract"}) =>
        user_instruction = InstructionInOriginalText(EnvGet("COMMENT_BODY", <<>>))

ExpectedChangedPaths ==
    LET trimmed == [i \in 1..Len(fs.lines) |-> Strip(fs.lines[i])]
        InGames(p) == Len(p) >= 6 /\ SubSeq(p, 1, 6) = <<"g", "a", "m", "e", "s", "/">>
        HasExt(p) == \E e \in {ExtLua, ExtJson, ExtMd} :
                        Len(p) >= Len(e) /\ From(p, Len(p) - Len(e) + 1) = e
        Readable(p) == p \in DOMAIN fs.files /\ fs.files[p] = "ok"
        Included(p) == p /= <<>> /\ InGames(p) /\ HasExt(p) /\ Readable(p)
    IN  SelectSeq(trimmed, Included)

\* C8: when load_changed_files_content returns, its result is the blocks of
\* exactly the listed paths that, trimmed, start with games/ and end with .lua,
\* .json or .md and exist and read, in list order, joined by newlines; it is
\* empty when the list file is absent or no path qualifies.
C8_ChangedFilesFilter ==
    pc = "build" =>
        /\ changed_files =
             Join(<<"\n">>, [i \in 1..Len(ExpectedChangedPaths) |->
                               FileBlock(ExpectedChangedPaths[i],
                                         FileText(ExpectedChangedPaths[i]))])
        /\ (fs.list = "absent" \/ ExpectedChangedPaths = <<>>) => changed_files = <<>>

C8_Witness ==
    /\ pc = "build"
    /\ Len(fs.lines) = 3
    /\ Len(ExpectedChangedPaths) = 2
    /\ ExpectedChangedPaths[1] /= ExpectedChangedPaths[2]
    /\ changed_files /= <<>>

\* the blocks the knowledge blob is to hold, in order: the readable priority
\* files in the fixed order, then the readable pattern files in match order
ExpectedKnowledgeBlocks ==
    LET matches == IF fs.patterns_dir THEN fs.glob ELSE <<>>
        candidates ==
            [i \in 1..(3 + Len(matches)) |->
                IF i <= 3
                THEN [ok |-> fs.prio[i] = "ok",
                      block |-> PriorityBlock(PriorityFiles[i], PriorityText[i])]
                ELSE [ok |-> matches[i - 3].state = "ok",
                      block |-> PatternBlock(matches[i - 3].name,
                                             PatternText(matches[i - 3].name))]]
        IsOk(c) == c.ok
        kept == SelectSeq(candidates, IsOk)
    IN  [i \in 1..Len(kept) |-> kept[i].block]

\* C9: the knowledge blob is the blocks of the readable priority files in the
\* order CLAUDE.md, docs/AI_QUICK_RULES.md, docs/AI_DEVELOPER_GUIDE.md, then those
\* of the readable pattern files in glob order, joined by the separator; a file
\* that fails to read is left out; the blob is empty exactly when there is no
\* block.
C9_KnowledgeOrder ==
    pc = "load_diff" =>
        /\ knowledge = Join(KnowledgeSep, ExpectedKnowledgeBlocks)
        /\ knowledge = <<>> <=> ExpectedKnowledgeBlocks = <<>>

C9_Witness ==
    /\ pc = "load_diff"
    /\ fs.prio[1] = "unreadable"
    /\ fs.prio[2] = "ok"
    /\ fs.prio[3] = "ok"
    /\ Len(fs.glob) = 2
    /\ fs.glob[1].state = "ok"
    /\ fs.glob[2].state = "ok"
    /\ knowledge /= <<>>

\* the first n characters of s, or the fallback sentence for an empty s
FirstChars(s, n, fallback) ==
    IF Len(s) = 0 THEN <<fallback>>
    ELSE [i \in 1..(IF Len(s) > n THEN n ELSE Len(s)) |-> s[i]]

\* C10: the system prompt embeds the first 50,000 characters of the knowledge
\* blob, the user message the first 30,000 of the diff and the first 20,000 of
\* the changed-file content, each whatever the lengths of the others, and an
\* empty input is replaced by its fallback sentence.
C10_IndependentTruncation ==
    pc = "call" =>
        /\ system_prompt =
             <<SysHead>> \o FirstChars(knowledge, 50000, KnowledgeFallback)
                 \o <<SysTail>>
        /\ user_message =
             <<UserHead>> \o EnvGet("PR_NUMBER", Unknown) \o <<InstructionHead>>
                 \o (IF user_instruction = <<>> THEN <<InstructionFallback>>
                     ELSE user_instruction)
                 \o <<DiffHead>> \o FirstChars(pr_diff, 30000, DiffFallback)
                 \o <<ChangedHead>> \o FirstChars(changed_files, 20000, ChangedFallback)
                 \o <<UserTail>>

C10_Witness ==
    /\ pc = "call"
    /\ Len(knowledge) = 1
    /\ Len(pr_diff) = 0
    /\ Len(changed_files) > 20000
    /\ Len(system_prompt) = 3
    /\ Len(user_message) = Len(EnvGet("PR_NUMBER", Unknown)) + 20007

====
